---- MODULE Spec2Model ----
(***************************************************************************)
(* A model of the notebooks of the repository:                             *)
(*   - learning/controlflow/examples/example3.ipynb: the code-review cell  *)
(*     and the result-validator cell;                                       *)
(*   - the Reddit scraper notebook (BeautifulSoup cell, Selenium cell,     *)
(*     PRAW cell), whose text is kept in prompts/summarize.txt;            *)
(*   - the ControlFlow settings notebook (unnamed/part_000).               *)
(* The LLM agent, the web server and the Reddit API are the environment:   *)
(* their answers are nondeterministic choices from bounded sets.           *)
(***************************************************************************)
EXTENDS Integers, Sequences, FiniteSets, TLC

VARIABLES
    \* ---- example3.ipynb (one kernel; one cell runs at a time) ----
    pc,               \* position in the running cell
    task,             \* the ControlFlow task of the current cf.run: status, result
    turns,            \* tool calls the agent has made in the current cf.run
    output,           \* lines printed by the running cell, in order
    calls,            \* arguments check_even_number was called with, in order
    even_result,      \* the cell's variable even_result (<<>> while unset)
    odd_result,       \* the cell's variable odd_result  (<<>> while unset)
    last_validation,  \* the last call of the result validator: input and outcome
    tool_returns,     \* CodeReviews returned by approve_code / reject_code calls
    result,           \* the review cell's variable result (<<>> while unset)
    \* ---- the scraper notebook (one kernel; one cell runs at a time) ----
    cell,             \* the running cell: "idle", "bs", "selenium", "praw"
    spc,              \* position in the running cell
    response,         \* requests.get's response: status_code, text (<<>> if none)
    soup,             \* the parsed page: has_title, articles (<<>> if none)
    now,              \* the cell's variable now, in ticks (<<>> while unset)
    posts_details,    \* the kernel's dict posts_details, in insertion order
    cursor,           \* index of the next item of the running for loop
    contributed,      \* indices of the articles stored by this run of the loop
    stdout,           \* lines printed by the running cell, in order
    requests,         \* requests.get calls made by this run
    driver_log,       \* calls made on the Selenium driver by this run, in order
    posts_data,       \* the kernel's dict posts_data, in insertion order
    yielded,          \* the posts the listing has yielded to this run, as fetched
    dict_before,      \* the running cell's dictionary as it was when the run began
    \* ---- a call of get_comments_with_replies on its own ----
    gc_comment,       \* the comment passed (<<>> if none)
    gc_depth,         \* the depth passed
    gc_result,        \* the list returned (<<>> in a tuple; <<>> alone if none yet)
    \* ---- the files of ./_output/new/ and the clock ----
    files,            \* the files of the directory: name and text, in creation order
    clock,            \* the last reading of datetime.now() for a file name, in ticks
    file_before,      \* the text the running cell's file had when opened (<<>> if none)
    \* ---- the ControlFlow settings notebook and a run under its settings ----
    settings,         \* cf.settings: its fields and their values, in field order
    home,             \* the home directory of the user running the kernel
    step,             \* statements of the settings cell executed so far
    turn_count,       \* agent turns of the current orchestrator run
    call_count,       \* LLM calls of the current orchestrator run
    \* ---- any notebook ----
    uncaught,         \* the exception that left the running cell (<<>> if none)
    tool_call         \* a call of a tool on its own: tool, arg, value (<<>> if none)

flowVars == <<pc, task, turns, output, calls, even_result, odd_result,
              last_validation, tool_returns, result>>

htmlVars == <<response, soup, now, posts_details, contributed, requests, driver_log>>
prawVars == <<posts_data, yielded>>
gcVars == <<gc_comment, gc_depth, gc_result>>
fileVars == <<files, clock, file_before>>
scrapeVars == <<cell, spc, cursor, stdout, dict_before, htmlVars, prawVars, gcVars, fileVars>>

settingsVars == <<settings, home, step, turn_count, call_count>>

vars == <<flowVars, scrapeVars, settingsVars, uncaught, tool_call>>

----------------------------------------------------------------------------
(* Bounds of the model.                                                    *)

\* the agent proposes numbers in -MaxNumber .. MaxNumber
MaxNumber == 5
\* tool calls an agent may make that do not end the task, per cf.run
MaxToolCalls == 2
\* longest issues / suggestions list of a CodeReview
MaxListLen == 1

\* the arguments of the two calls of the validator cell
EvenArg == 4
OddArg == 5

Numbers == (0 - MaxNumber)..MaxNumber

\* Python's None / an unset variable is the empty tuple, a value x is <<x>>.
None == <<>>
Some(x) == <<x>>

SeqUpTo(S, n) == UNION {[1..k -> S] : k \in 0..n}

\* The scraper notebook's kernel before any cell has run; the output
\* directory holds no file.
InitScrapeIdle ==
    /\ cell = "idle"
    /\ spc = "idle"
    /\ response = None
    /\ soup = None
    /\ now = None
    /\ posts_details = <<>>
    /\ cursor = 0
    /\ contributed = {}
    /\ stdout = <<>>
    /\ requests = 0
    /\ driver_log = <<>>
    /\ posts_data = <<>>
    /\ yielded = <<>>
    /\ dict_before = <<>>
    /\ files = <<>>
    /\ clock = 0
    /\ file_before = None

\* The settings notebook has not been run and no orchestrator is running.
InitSettingsIdle ==
    /\ settings = <<>>
    /\ home = <<>>
    /\ step = 0
    /\ turn_count = 0
    /\ call_count = 0
    /\ uncaught = None
    /\ tool_call = None

\* No call of get_comments_with_replies on its own.
InitGcIdle ==
    /\ gc_comment = None
    /\ gc_depth = 0
    /\ gc_result = None

----------------------------------------------------------------------------
(* example3.ipynb: data models and tools                                   *)

NumberResult(n) == [number |-> n]

CodeReview(status, issues, suggestions, approval) ==
    [status |-> status, issues |-> issues, suggestions |-> suggestions,
     approval |-> approval]

ReviewStatuses == {"approved", "rejected", "needs work"}
ReviewTexts == {"Overwriting built-in function name", "Inefficient list iteration"}
ReviewLists == SeqUpTo(ReviewTexts, MaxListLen)
               \cup {<<"Code meets all quality standards">>}
CodeReviews == {CodeReview(s, i, g, a) : s \in ReviewStatuses, i \in ReviewLists,
                                         g \in ReviewLists, a \in BOOLEAN}

\* A bug approve_code could have: the lists of its argument kept.
approve_code_keeping(review) ==
    CodeReview("approved", review.issues, review.suggestions, TRUE)

\* A bug reject_code could have: the issues in reverse order.
reject_code_reversed(issues) ==
    CodeReview("rejected", [i \in 1..Len(issues) |-> issues[Len(issues) - i + 1]],
               <<>>, FALSE)

approve_code(review) ==
    CodeReview("approved", <<>>, <<"Code meets all quality standards">>, TRUE)

reject_code(issues) == CodeReview("rejected", issues, <<>>, FALSE)

\* The outcome of a Python call: a returned value or a raised exception.
Returned(v) == [raised |-> FALSE, exc |-> "", msg |-> "", value |-> Some(v)]
Raised(exc, msg) == [raised |-> TRUE, exc |-> exc, msg |-> msg, value |-> None]

\* A bug a result validator could have: C-style remainder, under which a
\* negative odd number has remainder -1 and slips through a test against 1.
validate_even_truncated(res) ==
    IF res.number > 0 /\ res.number % 2 = 1
    THEN Raised("ValueError", "The number must be even.")
    ELSE Returned(res)

validate_even(res) ==
    IF res.number % 2 /= 0
    THEN Raised("ValueError", "The number must be even.")
    ELSE Returned(res)

----------------------------------------------------------------------------
\* The framework's side of a task, as the recorded traceback shows it:
\*   succeed:         self.mark_successful(result=result_schema(kwargs))
\*   mark_successful: self.result = self.validate_result(result)
\*   validate_result: result = self.result_validator(result)
\*   run_tasks:       raise ValueError("1 task failed: ...")

PendingTask(validator, arg) ==
    [status |-> "PENDING", result |-> None, validator |-> validator, arg |-> arg]

validate_result(t, candidate) ==
    IF t.validator = "validate_even" THEN validate_even(candidate)
    ELSE Returned(candidate)

\* The task after mark_successful(candidate): the assignment to self.result
\* happens only when validate_result returned.
mark_successful(t, candidate) ==
    LET v == validate_result(t, candidate)
    IN  IF v.raised THEN t
        ELSE [t EXCEPT !.status = "SUCCESSFUL", !.result = v.value]

mark_failed(t) == [t EXCEPT !.status = "FAILED"]

----------------------------------------------------------------------------
(* The printed lines                                                       *)

Line(fmt, arg) == [fmt |-> fmt, arg |-> arg]
EvenLine(n) == Line("The number {} is even.", <<n>>)
\* str(e) is the framework's message about the failed task; it names the
\* argument of the failed check.
ValidationFailedLine(n) == Line("Validation failed: {}", <<n>>)

----------------------------------------------------------------------------
(* The result-validator cell                                               *)

\* A bug the flow could have: result_validator left out of cf.run.
check_even_number_no_validator(number) ==
    /\ task' = PendingTask("", number)
    /\ turns' = 0
    /\ calls' = Append(calls, number)
    /\ pc' = "check"

\* @cf.flow check_even_number(number): cf.run creates the task and hands it
\* to the agent; the call is pending until the agent ends the task.
check_even_number(number) ==
    /\ task' = PendingTask("validate_even", number)
    /\ turns' = 0
    /\ calls' = Append(calls, number)
    /\ pc' = "check"

\* try: even_result = check_even_number(4)
ValidatorCellStart ==
    /\ pc = "validator_start"
    /\ check_even_number(EvenArg)
    /\ UNCHANGED <<output, even_result, odd_result, last_validation,
                   tool_returns, result>>

\* The agent calls the task's success tool with a number of its choice.
AgentMarksSuccessful ==
    /\ pc = "check"
    /\ task.status = "PENDING"
    /\ \E n \in Numbers :
         LET candidate == NumberResult(n)
             t2 == mark_successful(task, candidate)
         IN  /\ last_validation' = Some([input |-> candidate,
                                         outcome |-> validate_result(task, candidate)])
             /\ task' = t2
             /\ \/ t2.status = "SUCCESSFUL" /\ turns' = turns
                \/ t2.status = "PENDING" /\ turns < MaxToolCalls /\ turns' = turns + 1
    /\ UNCHANGED <<pc, output, calls, even_result, odd_result, tool_returns, result>>

\* The agent calls the task's fail tool.
AgentMarksFailed ==
    /\ pc \in {"check", "review"}
    /\ task.status = "PENDING"
    /\ task' = mark_failed(task)
    /\ UNCHANGED <<pc, turns, output, calls, even_result, odd_result,
                   last_validation, tool_returns, result>>

\* A bug the cell could have: the handler runs the failed check again.
ExceptValueErrorRetry ==
    /\ output' = Append(output, ValidationFailedLine(task.arg))
    /\ check_even_number(task.arg)
    /\ UNCHANGED <<even_result, odd_result, last_validation, tool_returns, result>>

\* except ValueError as e: print(f"Validation failed: {str(e)}")
ExceptValueError ==
    /\ output' = Append(output, ValidationFailedLine(task.arg))
    /\ pc' = "done"
    /\ UNCHANGED <<task, turns, calls, even_result, odd_result, last_validation,
                   tool_returns, result>>

\* cf.run raises ValueError for the failed task; it propagates out of
\* check_even_number into the cell's except clause.
CheckRaises ==
    /\ pc = "check"
    /\ task.status = "FAILED"
    /\ ExceptValueError

\* cf.run returns task.result; check_even_number returns it; the cell prints
\* the success line and goes on to its next statement.
CheckReturns ==
    /\ pc = "check"
    /\ task.status = "SUCCESSFUL"
    /\ IF Len(calls) = 1
       THEN /\ even_result' = task.result
            /\ output' = Append(output, EvenLine(task.result[1].number))
            /\ check_even_number(OddArg)
            /\ UNCHANGED <<odd_result>>
       ELSE /\ odd_result' = task.result
            /\ output' = Append(output, EvenLine(task.result[1].number))
            /\ pc' = "done"
            /\ UNCHANGED <<task, turns, calls, even_result>>
    /\ UNCHANGED <<last_validation, tool_returns, result>>

InitFlowIdle ==
    /\ task = PendingTask("", 0)
    /\ turns = 0
    /\ output = <<>>
    /\ calls = <<>>
    /\ even_result = None
    /\ odd_result = None
    /\ last_validation = None
    /\ tool_returns = {}
    /\ result = None

InitValidator == pc = "validator_start" /\ InitFlowIdle /\ InitScrapeIdle /\ InitGcIdle /\ InitSettingsIdle

NextValidator ==
    \/ ValidatorCellStart /\ UNCHANGED <<scrapeVars, settingsVars, uncaught, tool_call>>
    \/ AgentMarksSuccessful /\ UNCHANGED <<scrapeVars, settingsVars, uncaught, tool_call>>
    \/ AgentMarksFailed /\ UNCHANGED <<scrapeVars, settingsVars, uncaught, tool_call>>
    \/ CheckReturns /\ UNCHANGED <<scrapeVars, settingsVars, uncaught, tool_call>>
    \/ CheckRaises /\ UNCHANGED <<scrapeVars, settingsVars, uncaught, tool_call>>

SpecValidator == InitValidator /\ [][NextValidator]_vars

----------------------------------------------------------------------------
(* The code-review cell                                                    *)

PassedBanner == Line("Code Review Passed", <<>>)
SuggestionsHeader == Line("Suggestions:", <<>>)
FailedBanner == Line("Code Review Failed", <<>>)
IssuesHeader == Line("Issues Found:", <<>>)
ItemLine(text) == Line("- {}", <<text>>)
ReviewProcessFailedLine == Line("Review process failed: {}", <<"1 task failed">>)

ItemLines(texts) == [i \in 1..Len(texts) |-> ItemLine(texts[i])]

\* @cf.flow review_code(code): cf.run(objective, result_type=CodeReview,
\* agents=[reviewer], context): no result_validator, and the task itself is
\* given no tools; approve_code and reject_code are tools of the agent.
review_code ==
    /\ task' = PendingTask("", 0)
    /\ turns' = 0
    /\ tool_returns' = {}
    /\ pc' = "review"

\* try: result = review_code(code_to_review)
ReviewCellStart ==
    /\ pc = "review_start"
    /\ review_code
    /\ UNCHANGED <<output, calls, even_result, odd_result, last_validation, result>>

\* The agent calls its tool approve_code; the value goes back to the agent.
AgentCallsApprove ==
    /\ pc = "review"
    /\ task.status = "PENDING"
    /\ turns < MaxToolCalls
    /\ \E r \in CodeReviews : tool_returns' = tool_returns \cup {approve_code(r)}
    /\ turns' = turns + 1
    /\ UNCHANGED <<pc, task, output, calls, even_result, odd_result,
                   last_validation, result>>

\* The agent calls its tool reject_code; the value goes back to the agent.
AgentCallsReject ==
    /\ pc = "review"
    /\ task.status = "PENDING"
    /\ turns < MaxToolCalls
    /\ \E issues \in ReviewLists : tool_returns' = tool_returns \cup {reject_code(issues)}
    /\ turns' = turns + 1
    /\ UNCHANGED <<pc, task, output, calls, even_result, odd_result,
                   last_validation, result>>

\* The agent ends the task with the framework's success tool: the result is
\* result_schema(kwargs), a CodeReview built from the fields the agent gives.
AgentSubmitsReview ==
    /\ pc = "review"
    /\ task.status = "PENDING"
    /\ \E r \in CodeReviews : task' = mark_successful(task, r)
    /\ UNCHANGED <<pc, turns, output, calls, even_result, odd_result,
                   last_validation, tool_returns, result>>

\* A bug the printing could have: both lists printed under the passed banner.
ReviewReportBoth(review) ==
    IF review.approval
    THEN <<PassedBanner, SuggestionsHeader>> \o ItemLines(review.suggestions)
         \o ItemLines(review.issues)
    ELSE <<FailedBanner, IssuesHeader>> \o ItemLines(review.issues)

\* if result.approval: ... else: ...   (the printing of the review)
ReviewReport(review) ==
    IF review.approval
    THEN <<PassedBanner, SuggestionsHeader>> \o ItemLines(review.suggestions)
    ELSE <<FailedBanner, IssuesHeader>> \o ItemLines(review.issues)

\* cf.run returns the task's result; the cell prints it.
ReviewReturns ==
    /\ pc = "review"
    /\ task.status = "SUCCESSFUL"
    /\ result' = task.result
    /\ output' = output \o ReviewReport(task.result[1])
    /\ pc' = "done"
    /\ UNCHANGED <<task, turns, calls, even_result, odd_result, last_validation,
                   tool_returns>>

\* cf.run raises for the failed task: except Exception as e: print(...)
ReviewRaises ==
    /\ pc = "review"
    /\ task.status = "FAILED"
    /\ output' = Append(output, ReviewProcessFailedLine)
    /\ pc' = "done"
    /\ UNCHANGED <<task, turns, calls, even_result, odd_result, last_validation,
                   tool_returns, result>>

\* Exception classes: KeyboardInterrupt derives from BaseException only.
ExceptionSubclasses == {"ValueError"}

\* except Exception as e: the classes the clause catches
ExceptException(exc) == exc \in ExceptionSubclasses

\* print(f"Review process failed: {str(e)}")
ReviewFailedLine(msg) == Line("Review process failed: {}", <<msg>>)

\* The kernel is interrupted while review_code waits for the agent:
\* KeyboardInterrupt is raised inside the try block.
ReviewInterrupted ==
    /\ pc = "review"
    /\ task.status = "PENDING"
    /\ IF ExceptException("KeyboardInterrupt")
       THEN /\ output' = Append(output, ReviewFailedLine(""))
            /\ pc' = "done"
            /\ UNCHANGED uncaught
       ELSE /\ uncaught' = Some("KeyboardInterrupt")
            /\ pc' = "crashed"
            /\ UNCHANGED output
    /\ UNCHANGED <<task, turns, calls, even_result, odd_result, last_validation,
                   tool_returns, result, scrapeVars, settingsVars, tool_call>>

InitReview == pc = "review_start" /\ InitFlowIdle /\ InitScrapeIdle /\ InitGcIdle /\ InitSettingsIdle

NextReview ==
    \/ ReviewCellStart /\ UNCHANGED <<scrapeVars, settingsVars, uncaught, tool_call>>
    \/ AgentCallsApprove /\ UNCHANGED <<scrapeVars, settingsVars, uncaught, tool_call>>
    \/ AgentCallsReject /\ UNCHANGED <<scrapeVars, settingsVars, uncaught, tool_call>>
    \/ AgentSubmitsReview /\ UNCHANGED <<scrapeVars, settingsVars, uncaught, tool_call>>
    \/ AgentMarksFailed /\ UNCHANGED <<scrapeVars, settingsVars, uncaught, tool_call>>
    \/ ReviewReturns /\ UNCHANGED <<scrapeVars, settingsVars, uncaught, tool_call>>
    \/ ReviewRaises /\ UNCHANGED <<scrapeVars, settingsVars, uncaught, tool_call>>
    \/ ReviewInterrupted

SpecReview == InitReview /\ [][NextReview]_vars

----------------------------------------------------------------------------
(* Claims about example3.ipynb                                             *)

\* n is twice an integer (stated without the remainder operator).
IsEvenNumber(n) == \E k \in (0 - MaxNumber - 1)..(MaxNumber + 1) : n = 2 * k

\* C1: a task run with result_validator=validate_even never completes with an
\* odd number: the stored task result, a successful task's result and every
\* value check_even_number returned (even_result, odd_result) are even, and an
\* odd candidate is never stored as the task's result.
C1_NeverOddResult ==
    /\ task.result /= None => IsEvenNumber(task.result[1].number)
    /\ task.status = "SUCCESSFUL" =>
         task.result /= None /\ IsEvenNumber(task.result[1].number)
    /\ even_result /= None => IsEvenNumber(even_result[1].number)
    /\ odd_result /= None => IsEvenNumber(odd_result[1].number)
    /\ (last_validation /= None /\ ~IsEvenNumber(last_validation[1].input.number))
         => task.result /= Some(last_validation[1].input)

\* The agent proposed an odd number for the second check; it was rejected and
\* the task has no result.
C1_Witness ==
    /\ pc = "check"
    /\ task.arg = OddArg
    /\ last_validation /= None
    /\ last_validation[1].input.number = OddArg
    /\ last_validation[1].outcome.raised
    /\ task.status = "PENDING"
    /\ task.result = None

\* C2: validate_even returns the result it was given, unchanged, when the
\* number is even, and raises ValueError("The number must be even.") when it
\* is odd; zero is accepted and negative odd numbers are rejected.
C2_ValidateEvenContract ==
    last_validation /= None =>
        LET v == last_validation[1]
        IN  IF IsEvenNumber(v.input.number)
            THEN /\ ~v.outcome.raised
                 /\ v.outcome.value = <<v.input>>
            ELSE /\ v.outcome.raised
                 /\ v.outcome.exc = "ValueError"
                 /\ v.outcome.msg = "The number must be even."
                 /\ v.outcome.value = None

\* The validator was called with a negative odd number and raised.
C2_Witness ==
    /\ last_validation /= None
    /\ last_validation[1].input.number = 0 - 3
    /\ last_validation[1].outcome.raised

\* C3, as stated: when the cell has ended, check_even_number was called with
\* 4 and then 5, the success line for 4 was printed and then one "Validation
\* failed" line for 5.
C3_RecordedRunAlways ==
    pc = "done" =>
        /\ calls = <<EvenArg, OddArg>>
        /\ output = <<EvenLine(EvenArg), ValidationFailedLine(OddArg)>>

IsFailedLine(l) == l.fmt = "Validation failed: {}"
IsEvenLine(l) == l.fmt = "The number {} is even."

\* C3, amended: check_even_number(4) is called first and once, and
\* check_even_number(5) at most once and only after the success line of the
\* first call was printed; a failed check prints one "Validation failed" line
\* and ends the cell, so no failed check is invoked again; a success line is
\* printed only for an even number, so never for 5.
C3_CallsInOrder ==
    /\ calls \in {<<>>, <<EvenArg>>, <<EvenArg, OddArg>>}
    /\ pc /= "validator_start" => Len(calls) >= 1
    /\ Len(calls) = 2 =>
         /\ Len(output) >= 1
         /\ even_result /= None
         /\ output[1] = EvenLine(even_result[1].number)
    /\ Len(output) <= 2
    /\ \A i \in 1..Len(output) :
         /\ IsFailedLine(output[i]) =>
              /\ i = Len(output)
              /\ pc = "done"
              /\ task.status = "FAILED"
              /\ output[i] = ValidationFailedLine(calls[Len(calls)])
         /\ IsEvenLine(output[i]) =>
              /\ IsEvenNumber(output[i].arg[1])
              /\ output[i].arg[1] /= OddArg
    /\ (pc = "done" /\ task.status = "FAILED") =>
         (Len(output) >= 1 /\ IsFailedLine(output[Len(output)]))

\* The recorded run: 4 passes, 5 fails.
C3_Witness ==
    /\ pc = "done"
    /\ calls = <<EvenArg, OddArg>>
    /\ output = <<EvenLine(EvenArg), ValidationFailedLine(OddArg)>>

\* C4: every CodeReview that review_code returns is a value that a call of
\* approve_code or of reject_code produced.
C4_ReviewFromTools == result /= None => result[1] \in tool_returns

----------------------------------------------------------------------------
(* The scraper notebook: text, dictionaries, time                          *)

\* A Python str is the sequence of its characters.
IsSpace(c) == c \in {" ", "\n", "\t"}

RECURSIVE lstrip(_)
lstrip(str) ==
    IF str = <<>> THEN str
    ELSE IF IsSpace(Head(str)) THEN lstrip(Tail(str)) ELSE str

RECURSIVE rstrip(_)
rstrip(str) ==
    IF str = <<>> THEN str
    ELSE IF IsSpace(str[Len(str)]) THEN rstrip(SubSeq(str, 1, Len(str) - 1)) ELSE str

\* A bug a strip could have: only the left side stripped.
strip_left_only(str) == lstrip(str)

strip(str) == rstrip(lstrip(str))

\* A bug the replace could have: nothing replaced.
keep_newlines(str) == str

IsNotNewline(c) == c /= "\n"
\* str.replace("\n", "")
remove_newlines(str) == SelectSeq(str, IsNotNewline)

NoContent == <<"N", "o", " ", "c", "o", "n", "t", "e", "n", "t">>

\* A dict is the sequence of its items in insertion order; assigning to a
\* key that is present replaces the value and keeps the key's place.
DictKeys(d) == {d[i].key : i \in 1..Len(d)}
DictGet(d, k) == (CHOOSE i \in 1..Len(d) : d[i].key = k)
\* A bug a keyed store could have: the first value of a key kept.
DictSetKeepFirst(d, k, v) ==
    IF k \in DictKeys(d) THEN d ELSE Append(d, [key |-> k, value |-> v])

DictSet(d, k, v) ==
    IF k \in DictKeys(d)
    THEN [i \in 1..Len(d) |-> IF d[i].key = k THEN [key |-> k, value |-> v] ELSE d[i]]
    ELSE Append(d, [key |-> k, value |-> v])

\* Time is counted in ticks; a day has TicksPerDay of them.
TicksPerDay == 2
\* the days on which posts were made are 0 .. MaxDay; the cells run on MaxDay
MaxDay == 2

timedelta(days) == days * TicksPerDay

\* A faceplate-timeago ts attribute, "<date>T<time>+0000".
Timestamps == {[date |-> d, time |-> 0] : d \in 0..MaxDay}

\* datetime.strptime(timestamp, "%Y-%m-%dT%H:%M:%S.%f+0000")
parse_datetime(timestamp) == timestamp.date * TicksPerDay + timestamp.time

\* datetime.now(): some instant of the day the cell runs on
Nows == {MaxDay * TicksPerDay, MaxDay * TicksPerDay + 1}

\* A bug the filter could have: a strict comparison.
IsFromLastDayStrict(n, post_datetime) == n - post_datetime < timedelta(1)

\* now - post_datetime <= timedelta(days=1)
IsFromLastDay(n, post_datetime) == n - post_datetime <= timedelta(1)

----------------------------------------------------------------------------
(* The pages the HTML cells may receive                                    *)

\* longest list of <article> elements of a page
MaxArticles == 2

TitleTags ==
    {None,
     Some([text |-> <<" ", "A", "\n">>, href |-> "/r/1"]),
     Some([text |-> <<"A">>, href |-> "/r/2"]),
     Some([text |-> <<"B">>, href |-> "/r/3"])}
TimestampTags == {None} \cup {Some([ts |-> t]) : t \in Timestamps}
\* no text-body div, a div with text, and a div whose text reads "No content"
TextBodies == {None, Some(<<" ", "x", "\n", "y", "\n">>), Some(NoContent \o <<"\n">>)}

Article(title_tag, timestamp_tag, text_body) ==
    [title_tag |-> title_tag, timestamp_tag |-> timestamp_tag, text_body |-> text_body]

Today == [date |-> MaxDay, time |-> 0]

\* The articles: each part varied in turn around a titled post made today,
\* and two posts that differ from it in more than one part.
Articles ==
    {Article(t, Some([ts |-> Today]), None) : t \in TitleTags}
    \cup {Article(Some([text |-> <<"A">>, href |-> "/r/2"]), s, None) : s \in TimestampTags}
    \cup {Article(Some([text |-> <<"A">>, href |-> "/r/2"]), Some([ts |-> Today]), b) :
            b \in TextBodies}
    \cup {Article(Some([text |-> <<"B">>, href |-> "/r/3"]), None,
                  Some(<<" ", "x", "\n", "y", "\n">>)),
          Article(Some([text |-> <<"B">>, href |-> "/r/3"]),
                  Some([ts |-> [date |-> 0, time |-> 0]]),
                  Some(<<" ", "x", "\n", "y", "\n">>))}

ArticleLists == SeqUpTo(Articles, MaxArticles)

HttpOk == 200
StatusCodes == {200, 301, 404}

\* BeautifulSoup(html, 'html.parser')
BeautifulSoup(html) == html

Page(has_title, articles) == [has_title |-> has_title, articles |-> articles]

----------------------------------------------------------------------------
(* Printed lines of the scraper cells                                      *)

FailedToRetrieveLine(status_code) ==
    Line("Failed to retrieve the webpage: Status code {}", <<status_code>>)
PostLine(item) ==
    Line("Title: {}\nLink: {}\nContent: {}\n",
         <<item.key, item.value.link, item.value.content>>)
PageTitleLine == Line("{}", <<"soup.title.text">>)
FoundPostsLine(n) == Line("Found {} posts on the page.", <<n>>)
PrettifyLine(article) == Line("{}", <<article>>)
IsPostLine(l) == l.fmt = "Title: {}\nLink: {}\nContent: {}\n"

\* for title, details in posts_details.items(): print(...)
PostLines(d) == [i \in 1..Len(d) |-> PostLine(d[i])]

----------------------------------------------------------------------------
(* The BeautifulSoup-only cell                                             *)

\* A bug the status test could have: every non-error status accepted.
StatusOkLoose(resp) == resp.status_code < 400

\* if response.status_code == 200:
StatusOk(resp) == resp.status_code = HttpOk

\* response = requests.get(url, headers=headers), and the branch on the
\* status: with 200 the page is parsed, now is taken and posts_details is
\* set to {}; otherwise the failure line is printed and the cell ends.
BsRequest(lists) ==
    /\ cell = "idle"
    /\ cell' = "bs"
    /\ requests' = requests + 1
    /\ driver_log' = <<>>
    /\ contributed' = {}
    /\ \E status_code \in StatusCodes, articles \in lists :
         LET resp == [status_code |-> status_code, text |-> Page(TRUE, articles)]
         IN  /\ response' = Some(resp)
             /\ IF StatusOk(resp)
                THEN /\ soup' = Some(BeautifulSoup(resp.text))
                     /\ \E n \in Nows : now' = Some(n)
                     /\ posts_details' = <<>>
                     /\ cursor' = 1
                     /\ stdout' = <<>>
                     /\ spc' = "loop"
                ELSE /\ stdout' = <<FailedToRetrieveLine(resp.status_code)>>
                     /\ spc' = "done"
                     /\ UNCHANGED <<soup, now, posts_details, cursor>>
    /\ dict_before' = posts_details
    /\ UNCHANGED <<prawVars, gcVars, fileVars>>

\* The record the BeautifulSoup cell stores for an article with a title.
BsDetails(article) ==
    LET content_text == IF article.text_body /= None
                        THEN strip(article.text_body[1]) ELSE NoContent
    IN  [link |-> article.title_tag[1].href,
         content |-> remove_newlines(rstrip(content_text))]

\* One iteration of: for article in soup.find_all('article')
BsLoopBody ==
    /\ cell = "bs"
    /\ spc = "loop"
    /\ cursor <= Len(soup[1].articles)
    /\ LET article == soup[1].articles[cursor]
       IN  IF article.title_tag /= None
           THEN /\ posts_details' = DictSet(posts_details,
                                            strip(article.title_tag[1].text),
                                            BsDetails(article))
                /\ contributed' = contributed \cup {cursor}
           ELSE UNCHANGED <<posts_details, contributed>>
    /\ cursor' = cursor + 1
    /\ UNCHANGED <<cell, spc, response, soup, now, stdout, requests, driver_log>>
    /\ UNCHANGED <<dict_before, prawVars, gcVars, fileVars>>

\* The print loop after the extraction loop.
BsPrint ==
    /\ cell = "bs"
    /\ spc = "loop"
    /\ cursor > Len(soup[1].articles)
    /\ stdout' = stdout \o PostLines(posts_details)
    /\ spc' = "done"
    /\ UNCHANGED <<cell, response, soup, now, posts_details, cursor, contributed,
                   requests, driver_log>>
    /\ UNCHANGED <<dict_before, prawVars, gcVars, fileVars>>

----------------------------------------------------------------------------
(* The Selenium cell                                                       *)

\* for _ in range(10)
ScrollCount == 10

\* driver = webdriver.Chrome(options); driver.get(url); sleep(2)
SelOpen ==
    /\ cell = "idle"
    /\ cell' = "selenium"
    /\ driver_log' = <<"Chrome", "get", "sleep">>
    /\ cursor' = 0
    /\ spc' = "scroll"
    /\ stdout' = <<>>
    /\ contributed' = {}
    /\ UNCHANGED <<response, soup, now, posts_details, requests>>
    /\ dict_before' = posts_details
    /\ UNCHANGED <<prawVars, gcVars, fileVars>>

\* A bug the scroll loop could have: no wait after the scroll.
SelScrollNoWait ==
    /\ cell = "selenium"
    /\ spc = "scroll"
    /\ cursor < ScrollCount
    /\ driver_log' = Append(driver_log, "execute_script")
    /\ cursor' = cursor + 1
    /\ UNCHANGED <<cell, spc, response, soup, now, posts_details, contributed,
                   stdout, requests>>
    /\ UNCHANGED <<dict_before, prawVars, gcVars, fileVars>>

\* One iteration of the scroll loop: execute_script(scrollTo); sleep(2)
SelScroll ==
    /\ cell = "selenium"
    /\ spc = "scroll"
    /\ cursor < ScrollCount
    /\ driver_log' = driver_log \o <<"execute_script", "sleep">>
    /\ cursor' = cursor + 1
    /\ UNCHANGED <<cell, spc, response, soup, now, posts_details, contributed,
                   stdout, requests>>
    /\ UNCHANGED <<dict_before, prawVars, gcVars, fileVars>>

\* soup = BeautifulSoup(driver.page_source); print(soup.title.text);
\* posts = soup.find_all('article'); print(found); print(posts[0].prettify()).
\* A page without a <title> makes soup.title None and .text raises.
SelParse(lists) ==
    /\ cell = "selenium"
    /\ spc = "scroll"
    /\ cursor = ScrollCount
    /\ driver_log' = Append(driver_log, "page_source")
    /\ \E has_title \in BOOLEAN, articles \in lists :
         /\ soup' = Some(BeautifulSoup(Page(has_title, articles)))
         /\ IF has_title
            THEN /\ stdout' = <<PageTitleLine, FoundPostsLine(Len(articles))>>
                              \o (IF articles /= <<>>
                                  THEN <<PrettifyLine(articles[1])>> ELSE <<>>)
                 /\ spc' = "quit"
            ELSE /\ spc' = "crashed"
                 /\ UNCHANGED stdout
    /\ UNCHANGED <<cell, response, now, posts_details, cursor, contributed, requests>>
    /\ UNCHANGED <<dict_before, prawVars, gcVars, fileVars>>

\* driver.quit(); now = datetime.now(); posts_details = {}
SelQuit ==
    /\ cell = "selenium"
    /\ spc = "quit"
    /\ driver_log' = Append(driver_log, "quit")
    /\ \E n \in Nows : now' = Some(n)
    /\ posts_details' = <<>>
    /\ cursor' = 1
    /\ spc' = "loop"
    /\ UNCHANGED <<cell, response, soup, contributed, stdout, requests>>
    /\ UNCHANGED <<dict_before, prawVars, gcVars, fileVars>>

\* The record the Selenium cell stores for an article it keeps.
SelDetails(article) ==
    LET content_text == IF article.text_body /= None
                        THEN strip(article.text_body[1]) ELSE NoContent
    IN  [link |-> article.title_tag[1].href, content |-> content_text]

\* One iteration of: for article in soup.find_all('article')
SelLoopBody ==
    /\ cell = "selenium"
    /\ spc = "loop"
    /\ cursor <= Len(soup[1].articles)
    /\ LET article == soup[1].articles[cursor]
       IN  IF /\ article.title_tag /= None
              /\ article.timestamp_tag /= None
              /\ IsFromLastDay(now[1], parse_datetime(article.timestamp_tag[1].ts))
           THEN /\ posts_details' = DictSet(posts_details,
                                            strip(article.title_tag[1].text),
                                            SelDetails(article))
                /\ contributed' = contributed \cup {cursor}
           ELSE UNCHANGED <<posts_details, contributed>>
    /\ cursor' = cursor + 1
    /\ UNCHANGED <<cell, spc, response, soup, now, stdout, requests, driver_log>>
    /\ UNCHANGED <<dict_before, prawVars, gcVars, fileVars>>

\* The print loop after the extraction loop.
SelPrint ==
    /\ cell = "selenium"
    /\ spc = "loop"
    /\ cursor > Len(soup[1].articles)
    /\ stdout' = stdout \o PostLines(posts_details)
    /\ spc' = "done"
    /\ UNCHANGED <<cell, response, soup, now, posts_details, cursor, contributed,
                   requests, driver_log>>
    /\ UNCHANGED <<dict_before, prawVars, gcVars, fileVars>>

----------------------------------------------------------------------------
(* One run of an HTML scraping cell in a fresh kernel                      *)

InitScrape == pc = "idle" /\ InitFlowIdle /\ InitScrapeIdle /\ InitGcIdle /\ InitSettingsIdle

NextScrape ==
    \/ BsRequest(ArticleLists) /\ UNCHANGED <<flowVars, settingsVars, uncaught, tool_call>>
    \/ BsLoopBody /\ UNCHANGED <<flowVars, settingsVars, uncaught, tool_call>>
    \/ BsPrint /\ UNCHANGED <<flowVars, settingsVars, uncaught, tool_call>>
    \/ SelOpen /\ UNCHANGED <<flowVars, settingsVars, uncaught, tool_call>>
    \/ SelScroll /\ UNCHANGED <<flowVars, settingsVars, uncaught, tool_call>>
    \/ SelParse(ArticleLists) /\ UNCHANGED <<flowVars, settingsVars, uncaught, tool_call>>
    \/ SelQuit /\ UNCHANGED <<flowVars, settingsVars, uncaught, tool_call>>
    \/ SelLoopBody /\ UNCHANGED <<flowVars, settingsVars, uncaught, tool_call>>
    \/ SelPrint /\ UNCHANGED <<flowVars, settingsVars, uncaught, tool_call>>

SpecScrape == InitScrape /\ [][NextScrape]_vars

----------------------------------------------------------------------------
(* Claims about the HTML scraping cells                                    *)

\* The age of an article's timestamp at the time now, in ticks (written out,
\* without the cell's own helpers).
AgeInTicks(article) ==
    now[1] - (article.timestamp_tag[1].ts.date * TicksPerDay
              + article.timestamp_tag[1].ts.time)

\* The article a printed title comes from: the last one with that title.
SourceOfTitle(articles, title) ==
    CHOOSE i \in 1..Len(articles) :
        /\ articles[i].title_tag /= None
        /\ strip(articles[i].title_tag[1].text) = title
        /\ \A j \in (i + 1)..Len(articles) :
             articles[j].title_tag = None
             \/ strip(articles[j].title_tag[1].text) /= title

\* C5: in the BeautifulSoup-only cell no post older than one day before now
\* is printed.
C5_PrintedPostsFromLastDay ==
    (cell = "bs" /\ spc = "done" /\ soup /= None) =>
        \A k \in 1..Len(stdout) :
            IsPostLine(stdout[k]) =>
                LET article == soup[1].articles[SourceOfTitle(soup[1].articles,
                                                              stdout[k].arg[1])]
                IN  article.timestamp_tag /= None
                        => AgeInTicks(article) <= TicksPerDay

\* C6: in the Selenium cell an article contributes an entry to posts_details
\* if and only if it has a title anchor, has a faceplate-timeago element and
\* now - post_datetime <= 1 day.
C6_ContributesIff ==
    (cell = "selenium" /\ spc \in {"loop", "done"}) =>
        /\ contributed \subseteq 1..(cursor - 1)
        /\ spc = "done" => cursor = Len(soup[1].articles) + 1
        /\ \A i \in 1..(cursor - 1) :
             LET article == soup[1].articles[i]
             IN  /\ i \in contributed <=>
                      /\ article.title_tag /= None
                      /\ article.timestamp_tag /= None
                      /\ AgeInTicks(article) <= TicksPerDay
                 /\ i \in contributed =>
                      strip(article.title_tag[1].text) \in DictKeys(posts_details)

\* The cell has ended; a post exactly one day old was kept and a post made
\* today that has no timestamp element was dropped.
C6_Witness ==
    /\ cell = "selenium"
    /\ spc = "done"
    /\ \E i, j \in 1..Len(soup[1].articles) :
         /\ i \in contributed
         /\ AgeInTicks(soup[1].articles[i]) = TicksPerDay
         /\ j \notin contributed
         /\ soup[1].articles[j].title_tag /= None
         /\ soup[1].articles[j].timestamp_tag = None

\* C9: the BeautifulSoup-only cell requests the page once; with a status
\* other than 200 it prints the one failure line with the status code, parses
\* nothing and extracts no post; it parses, extracts and prints posts only
\* when the status is 200.
C9_BsLinear ==
    cell = "bs" =>
        /\ requests = 1
        /\ response /= None
        /\ response[1].status_code /= 200 =>
             /\ spc = "done"
             /\ stdout = <<FailedToRetrieveLine(response[1].status_code)>>
             /\ soup = None
             /\ contributed = {}
             /\ posts_details = dict_before
        /\ response[1].status_code = 200 =>
             /\ soup /= None
             /\ \A k \in 1..Len(stdout) : IsPostLine(stdout[k])
             /\ spc = "done" =>
                  /\ cursor = Len(soup[1].articles) + 1
                  /\ stdout = PostLines(posts_details)

\* The request was answered with 404 and the cell has ended.
C9_Witness ==
    /\ cell = "bs"
    /\ spc = "done"
    /\ response /= None
    /\ response[1].status_code = 404
    /\ response[1].text.articles /= <<>>

----------------------------------------------------------------------------
(* Reddit comment trees (PRAW)                                             *)

\* A praw Comment: its body and, when it has the attribute, its replies.
Comment(body, has_replies, replies) ==
    [kind |-> "Comment", body |-> body, has_replies |-> has_replies,
     replies |-> replies, hidden |-> <<>>]

\* A praw MoreComments placeholder: it stands for comments the server has
\* not sent (hidden); it has no body.
MoreComments(hidden) ==
    [kind |-> "MoreComments", body |-> <<>>, has_replies |-> FALSE,
     replies |-> <<>>, hidden |-> hidden]

Bodies == {<<"a">>, <<"b">>}

\* most nodes (comments and placeholders) of a tree
MaxNodes == 4

RECURSIVE TreesOfSize(_)
RECURSIVE ForestsOfSize(_)
\* The trees of exactly n nodes.
TreesOfSize(n) ==
    {Comment(b, TRUE, f) : b \in Bodies, f \in ForestsOfSize(n - 1)}
    \cup {MoreComments(h) : h \in ForestsOfSize(n - 1)}
    \cup (IF n = 1 THEN {Comment(b, FALSE, <<>>) : b \in Bodies} ELSE {})

\* The lists of trees that have n nodes together.
ForestsOfSize(n) ==
    IF n = 0 THEN {<<>>}
    ELSE UNION {{<<t>> \o f : t \in TreesOfSize(k), f \in ForestsOfSize(n - k)} :
                    k \in 1..n}

\* The comments get_comments_with_replies may be called on.
RootComments ==
    {t \in UNION {TreesOfSize(n) : n \in 1..MaxNodes} : t.kind = "Comment"}

\* A bug the indentation could have: one space for a level.
SpacerSingle(depth) == [i \in 1..depth |-> " "]

\* "  " * depth
RECURSIVE Spacer(_)
Spacer(depth) == IF depth = 0 THEN <<>> ELSE <<" ", " ">> \o Spacer(depth - 1)

\* f"{spacer}- {comment.body}"
CommentLine(comment, depth) == Spacer(depth) \o <<"-", " ">> \o comment.body

\* comment.replies after: if not hasattr(comment, "replies"): comment.replies = []
RepliesOf(comment) == IF comment.has_replies THEN comment.replies ELSE <<>>

RECURSIVE get_comments_with_replies(_, _)
RECURSIVE extend_with_replies(_, _)

\* A bug the function could have: the comment's own line after its replies.
get_comments_postorder(comment, depth) ==
    extend_with_replies(RepliesOf(comment), depth) \o <<CommentLine(comment, depth)>>

\* for reply in comment.replies: MoreComments skipped, any other reply's
\* lines appended.
extend_with_replies(replies, depth) ==
    IF replies = <<>> THEN <<>>
    ELSE LET reply == Head(replies)
         IN  (IF reply.kind = "MoreComments"
              THEN <<>>
              ELSE get_comments_with_replies(reply, depth + 1))
             \o extend_with_replies(Tail(replies), depth)

get_comments_with_replies(comment, depth) ==
    <<CommentLine(comment, depth)>> \o extend_with_replies(RepliesOf(comment), depth)

\* A bug the function could have: the attribute set on the first comment only.
with_replies_first_only(comment) ==
    IF comment.kind = "MoreComments" THEN comment
    ELSE Comment(comment.body, TRUE, RepliesOf(comment))

\* The tree after the call: every comment visited has the attribute replies.
RECURSIVE with_replies(_)
with_replies(comment) ==
    IF comment.kind = "MoreComments" THEN comment
    ELSE Comment(comment.body, TRUE,
                 [i \in 1..Len(RepliesOf(comment)) |->
                     with_replies(RepliesOf(comment)[i])])

\* CommentForest.replace_more(limit=0) of the PRAW library: every MoreComments
\* placeholder, at every level, is removed and none is fetched.
RECURSIVE remove_more(_)
remove_more(comments) ==
    IF comments = <<>> THEN <<>>
    ELSE LET c == Head(comments)
         IN  (IF c.kind = "MoreComments"
              THEN <<>>
              ELSE <<Comment(c.body, c.has_replies, remove_more(c.replies))>>)
             \o remove_more(Tail(comments))

\* CommentForest.replace_more(limit=None): every placeholder is replaced by
\* the comments it stands for.
RECURSIVE expand_more(_)
expand_more(comments) ==
    IF comments = <<>> THEN <<>>
    ELSE LET c == Head(comments)
         IN  (IF c.kind = "MoreComments"
              THEN expand_more(c.hidden)
              ELSE <<Comment(c.body, c.has_replies, expand_more(c.replies))>>)
             \o expand_more(Tail(comments))

replace_more(comments, limit) ==
    IF limit = 0 THEN remove_more(comments) ELSE expand_more(comments)

\* for top_level_comment in post.comments:
\*     comments.extend(get_comments_with_replies(top_level_comment))
RECURSIVE top_level_lines(_)
top_level_lines(comments) ==
    IF comments = <<>> THEN <<>>
    ELSE get_comments_with_replies(Head(comments), 0)
         \o top_level_lines(Tail(comments))

----------------------------------------------------------------------------
(* A call of get_comments_with_replies                                     *)

\* greatest depth argument
MaxDepth == 1

InitComments ==
    /\ pc = "idle"
    /\ InitFlowIdle
    /\ InitSettingsIdle
    /\ InitScrapeIdle
    /\ gc_comment \in {Some(c) : c \in RootComments}
    /\ gc_depth \in 0..MaxDepth
    /\ gc_result = None

\* comments_list = get_comments_with_replies(comment, depth)
GcCall ==
    /\ gc_comment /= None
    /\ gc_result = None
    /\ gc_result' = Some(get_comments_with_replies(gc_comment[1], gc_depth))
    /\ gc_comment' = Some(with_replies(gc_comment[1]))
    /\ UNCHANGED <<gc_depth, flowVars, settingsVars, uncaught, tool_call, cell, spc, cursor, stdout, dict_before,
                   htmlVars, prawVars, fileVars>>

NextComments == GcCall

SpecComments == InitComments /\ [][NextComments]_vars

----------------------------------------------------------------------------
(* Claims about get_comments_with_replies                                  *)

\* The positions of a tree: a path is the list of reply indexes that leads
\* from the root to a node; a tree of at most MaxNodes nodes has at most
\* MaxNodes - 1 nodes below its root.
Paths == UNION {[1..n -> 1..(MaxNodes - 1)] : n \in 0..(MaxNodes - 1)}

\* The path leads from comment to a comment and passes only through comments.
RECURSIVE IsCommentPath(_, _)
IsCommentPath(comment, path) ==
    \/ path = <<>>
    \/ /\ Head(path) <= Len(comment.replies)
       /\ comment.replies[Head(path)].kind = "Comment"
       /\ IsCommentPath(comment.replies[Head(path)], Tail(path))

RECURSIVE NodeAt(_, _)
NodeAt(comment, path) ==
    IF path = <<>> THEN comment
    ELSE NodeAt(comment.replies[Head(path)], Tail(path))

\* Depth-first pre-order: a node comes before its descendants, and an
\* earlier reply's subtree before a later reply's.
PreOrderBefore(p, q) ==
    \/ Len(p) < Len(q) /\ SubSeq(q, 1, Len(p)) = p
    \/ \E i \in 1..Len(p) :
         /\ i <= Len(q)
         /\ SubSeq(p, 1, i - 1) = SubSeq(q, 1, i - 1)
         /\ p[i] < q[i]

\* C8: get_comments_with_replies returns one line per comment reachable from
\* the given comment without passing through a MoreComments item, in
\* depth-first pre-order, the line of a comment n levels below the given one
\* being 2 * (depth + n) spaces, "- " and its body; MoreComments replies
\* contribute no line.
C8_PreOrderLines ==
    gc_result /= None =>
        LET reachable == {p \in Paths : IsCommentPath(gc_comment[1], p)}
            rank(p) == 1 + Cardinality({q \in reachable : PreOrderBefore(q, p)})
        IN  /\ Len(gc_result[1]) = Cardinality(reachable)
            /\ \A p \in reachable :
                 gc_result[1][rank(p)]
                     = [i \in 1..(2 * (gc_depth + Len(p))) |-> " "]
                       \o <<"-", " ">> \o NodeAt(gc_comment[1], p).body

\* The call was made on a comment whose replies are a MoreComments item and
\* a comment that has a reply of its own: three lines came back.
C8_Witness ==
    /\ gc_result /= None
    /\ Len(gc_comment[1].replies) = 2
    /\ gc_comment[1].replies[1].kind = "MoreComments"
    /\ gc_comment[1].replies[2].kind = "Comment"
    /\ Len(gc_comment[1].replies[2].replies) = 1
    /\ Len(gc_result[1]) = 3

----------------------------------------------------------------------------
(* The PRAW cell                                                           *)

PostIds == {"p1", "p2"}

\* A submission as the listing yields it; comments is its comment forest as
\* the server sent it.
Post(id, comments) ==
    [id |-> id, title |-> <<"title", id>>, selftext |-> <<"selftext", id>>,
     shortlink |-> <<"shortlink", id>>, flair |-> None, media |-> None,
     comments |-> comments]

\* Comment forests of posts: none, flat, nested, and with placeholders at
\* the top level and below it.
PostForests ==
    {<<>>,
     <<Comment(<<"a">>, TRUE, <<>>)>>,
     <<Comment(<<"a">>, TRUE, <<Comment(<<"b">>, TRUE, <<>>)>>)>>,
     <<Comment(<<"a">>, TRUE, <<>>),
       Comment(<<"b">>, TRUE, <<Comment(<<"a">>, TRUE, <<>>)>>)>>,
     <<Comment(<<"a">>, TRUE,
               <<MoreComments(<<Comment(<<"b">>, TRUE, <<>>)>>)>>),
       Comment(<<"b">>, TRUE, <<>>)>>,
     <<Comment(<<"a">>, TRUE, <<>>),
       MoreComments(<<Comment(<<"b">>, TRUE, <<>>)>>)>>}

Posts == {Post(id, f) : id \in PostIds, f \in PostForests}

\* subreddit.new(limit=1000)
ListingLimit == 1000
\* most posts the listing yields in a run
MaxPosts == 2

\* A bug the cell could have: posts_data not set to {}.
PrawStartNoReset ==
    /\ cell = "idle"
    /\ cell' = "praw"
    /\ dict_before' = posts_data
    /\ yielded' = <<>>
    /\ cursor' = 0
    /\ spc' = "loop"
    /\ stdout' = <<>>
    /\ UNCHANGED <<posts_data, htmlVars, gcVars, fileVars>>

\* subreddit = reddit.subreddit(...); new_posts = subreddit.new(limit=1000);
\* posts_data = {}; def get_comments_with_replies
PrawStart ==
    /\ cell = "idle"
    /\ cell' = "praw"
    /\ dict_before' = posts_data
    /\ posts_data' = <<>>
    /\ yielded' = <<>>
    /\ cursor' = 0
    /\ spc' = "loop"
    /\ stdout' = <<>>
    /\ UNCHANGED <<htmlVars, gcVars, fileVars>>

\* A bug the loop could have: comments not emptied for the next post.
PrawLoopBodyAccumulating(posts, most) ==
    /\ cell = "praw"
    /\ spc = "loop"
    /\ cursor < most
    /\ cursor < ListingLimit
    /\ \E post \in posts :
         LET loaded == replace_more(post.comments, 0)
             earlier == IF posts_data = <<>> THEN <<>>
                        ELSE posts_data[Len(posts_data)].value.comments
             comments == earlier \o top_level_lines(loaded)
         IN  /\ posts_data' = DictSet(posts_data, post.id,
                    [title |-> post.title, content |-> post.selftext,
                     comments |-> comments, link |-> post.shortlink,
                     flair |-> post.flair, media |-> post.media])
             /\ yielded' = Append(yielded, post)
    /\ cursor' = cursor + 1
    /\ UNCHANGED <<cell, spc, stdout, dict_before, htmlVars, gcVars, fileVars>>

\* One iteration of: for post in new_posts
PrawLoopBody(posts, most) ==
    /\ cell = "praw"
    /\ spc = "loop"
    /\ cursor < most
    /\ cursor < ListingLimit
    /\ \E post \in posts :
         LET loaded == replace_more(post.comments, 0)
             comments == top_level_lines(loaded)
         IN  /\ posts_data' = DictSet(posts_data, post.id,
                    [title |-> post.title, content |-> post.selftext,
                     comments |-> comments, link |-> post.shortlink,
                     flair |-> post.flair, media |-> post.media])
             /\ yielded' = Append(yielded, post)
    /\ cursor' = cursor + 1
    /\ UNCHANGED <<cell, spc, stdout, dict_before, htmlVars, gcVars, fileVars>>

\* The listing is exhausted: the for loop and the cell end.
PrawEnd ==
    /\ cell = "praw"
    /\ spc = "loop"
    /\ spc' = "done"
    /\ UNCHANGED <<cell, cursor, stdout, dict_before, htmlVars, prawVars, gcVars, fileVars>>

InitPraw == pc = "idle" /\ InitFlowIdle /\ InitScrapeIdle /\ InitGcIdle /\ InitSettingsIdle

NextPraw ==
    \/ PrawStart /\ UNCHANGED <<flowVars, settingsVars, uncaught, tool_call>>
    \/ PrawLoopBody(Posts, MaxPosts) /\ UNCHANGED <<flowVars, settingsVars, uncaught, tool_call>>
    \/ PrawEnd /\ UNCHANGED <<flowVars, settingsVars, uncaught, tool_call>>

SpecPraw == InitPraw /\ [][NextPraw]_vars

----------------------------------------------------------------------------
(* Claims about the PRAW cell                                              *)

\* The comments of a forest, those behind placeholders included.
RECURSIVE NumComments(_)
NumComments(comments) ==
    IF comments = <<>> THEN 0
    ELSE LET c == Head(comments)
         IN  (IF c.kind = "MoreComments"
              THEN NumComments(c.hidden)
              ELSE 1 + NumComments(c.replies))
             + NumComments(Tail(comments))

\* The last post of the run that has the id.
LastYielded(id) ==
    yielded[CHOOSE k \in 1..Len(yielded) :
                /\ yielded[k].id = id
                /\ \A j \in (k + 1)..Len(yielded) : yielded[j].id /= id]

\* C7: after replace_more(limit=0) the comment tree is fully expanded, so
\* the comments list stored for a post has a line for every comment of the
\* post, at every depth.
C7_EveryCommentListed ==
    cell = "praw" =>
        \A i \in 1..Len(posts_data) :
            Len(posts_data[i].value.comments)
                = NumComments(LastYielded(posts_data[i].key).comments)

----------------------------------------------------------------------------
(* A kernel session: the scraper cells run one after another               *)

\* most articles of a page and most posts of a listing in a session
SessionItems == 1

SessionArticles ==
    {Article(Some([text |-> <<"A">>, href |-> "/r/2"]), Some([ts |-> Today]), None),
     Article(Some([text |-> <<"B">>, href |-> "/r/3"]), Some([ts |-> Today]),
             Some(<<" ", "x", "\n", "y", "\n">>))}

SessionArticleLists == SeqUpTo(SessionArticles, SessionItems)

SessionPosts ==
    {Post("p1", <<>>), Post("p2", <<Comment(<<"a">>, TRUE, <<>>)>>)}

\* The running cell has ended, normally or by an exception; the kernel
\* keeps its variables, of which posts_details and posts_data are followed
\* here, and can run another cell.
CellEnds ==
    /\ cell /= "idle"
    /\ spc \in {"done", "crashed"}
    /\ cell' = "idle"
    /\ spc' = "idle"
    /\ response' = None
    /\ soup' = None
    /\ now' = None
    /\ cursor' = 0
    /\ contributed' = {}
    /\ stdout' = <<>>
    /\ requests' = 0
    /\ driver_log' = <<>>
    /\ yielded' = <<>>
    /\ dict_before' = <<>>
    /\ file_before' = None
    /\ UNCHANGED <<posts_details, posts_data, gcVars, files, clock>>

InitNotebook == pc = "idle" /\ InitFlowIdle /\ InitScrapeIdle /\ InitGcIdle /\ InitSettingsIdle

NextNotebook ==
    \/ BsRequest(SessionArticleLists) /\ UNCHANGED <<flowVars, settingsVars, uncaught, tool_call>>
    \/ BsLoopBody /\ UNCHANGED <<flowVars, settingsVars, uncaught, tool_call>>
    \/ BsPrint /\ UNCHANGED <<flowVars, settingsVars, uncaught, tool_call>>
    \/ SelOpen /\ UNCHANGED <<flowVars, settingsVars, uncaught, tool_call>>
    \/ SelScroll /\ UNCHANGED <<flowVars, settingsVars, uncaught, tool_call>>
    \/ SelParse(SessionArticleLists) /\ UNCHANGED <<flowVars, settingsVars, uncaught, tool_call>>
    \/ SelQuit /\ UNCHANGED <<flowVars, settingsVars, uncaught, tool_call>>
    \/ SelLoopBody /\ UNCHANGED <<flowVars, settingsVars, uncaught, tool_call>>
    \/ SelPrint /\ UNCHANGED <<flowVars, settingsVars, uncaught, tool_call>>
    \/ PrawStart /\ UNCHANGED <<flowVars, settingsVars, uncaught, tool_call>>
    \/ PrawLoopBody(SessionPosts, SessionItems) /\ UNCHANGED <<flowVars, settingsVars, uncaught, tool_call>>
    \/ PrawEnd /\ UNCHANGED <<flowVars, settingsVars, uncaught, tool_call>>
    \/ CellEnds /\ UNCHANGED <<flowVars, settingsVars, uncaught, tool_call>>

SpecNotebook == InitNotebook /\ [][NextNotebook]_vars

----------------------------------------------------------------------------
(* Claims about state carried between runs                                 *)

\* Every record of posts_details has the title of an article this run
\* took a record from.
DetailsFromThisRun ==
    \A k \in 1..Len(posts_details) :
        \E i \in contributed :
            /\ soup /= None
            /\ soup[1].articles[i].title_tag /= None
            /\ strip(soup[1].articles[i].title_tag[1].text) = posts_details[k].key

\* Every record of posts_data has the id of a post this run was given.
DataFromThisRun ==
    DictKeys(posts_data) = {yielded[k].id : k \in 1..Len(yielded)}

\* C10: every execution of the BeautifulSoup, Selenium and PRAW cell rebuilds
\* its dictionary from empty: when a run has ended the dictionary holds only
\* records of that run.
C10_OnlyLatestRun ==
    (cell /= "idle" /\ spc \in {"done", "crashed"}) =>
        IF cell = "praw" THEN DataFromThisRun ELSE DetailsFromThisRun

\* C10 as the code has it: a run that reaches its assignment of {} (the
\* BeautifulSoup cell with status 200, the Selenium cell after driver.quit(),
\* the PRAW cell at its start) holds only records of that run; a run that
\* does not reach it leaves posts_details as it found it.
C10_RebuiltWhenReset ==
    /\ cell = "bs" =>
         IF response[1].status_code = 200
         THEN DetailsFromThisRun ELSE posts_details = dict_before
    /\ cell = "selenium" =>
         IF spc \in {"loop", "done"}
         THEN DetailsFromThisRun ELSE posts_details = dict_before
    /\ cell = "praw" => DataFromThisRun

\* A BeautifulSoup run answered with 200 has ended in a kernel whose
\* posts_details held other records when the run began.
C10_Witness ==
    /\ cell = "bs"
    /\ spc = "done"
    /\ response[1].status_code = 200
    /\ dict_before /= <<>>
    /\ posts_details /= <<>>
    /\ DictKeys(dict_before) \cap DictKeys(posts_details) = {}

----------------------------------------------------------------------------
(* The ControlFlow settings notebook                                       *)

\* Python values of the settings. A text is the list of its parts between
\* "/" characters, so that a path can be taken apart.
StrValue(parts) == [type |-> "str", parts |-> parts]
PathValue(parts) == [type |-> "Path", parts |-> parts]
BoolValue(b) == [type |-> "bool", bool |-> b]
IntValue(n) == [type |-> "int", int |-> n]
FloatValue(repr) == [type |-> "float", repr |-> repr]
NoneValue == [type |-> "NoneType"]

RECURSIVE Join(_)
Join(parts) ==
    IF Len(parts) = 1 THEN parts[1] ELSE parts[1] \o "/" \o Join(Tail(parts))

\* str(value), as an f-string formats it
python_str(value) ==
    CASE value.type = "str" -> Join(value.parts)
      [] value.type = "Path" -> Join(value.parts)
      [] value.type = "bool" -> (IF value.bool THEN "True" ELSE "False")
      [] value.type = "int" -> ToString(value.int)
      [] value.type = "float" -> value.repr
      [] value.type = "NoneType" -> "None"

\* cf.settings.orchestrator_max_agent_turns = 100
MaxAgentTurns == 100
\* cf.settings.orchestrator_max_llm_calls = 1000
MaxLlmCalls == 1000
\* cf.settings.max_input_tokens = 100000
MaxInputTokens == 100000

Assignment(key, value) == [key |-> key, value |-> value]

\* The assignments of the cell, in order.
Assignments ==
    <<Assignment("home_path", StrValue(<<"~", ".controlflow">>)),
      Assignment("log_level", StrValue(<<"DEBUG">>)),
      Assignment("log_prints", BoolValue(FALSE)),
      Assignment("log_all_messages", BoolValue(FALSE)),
      Assignment("enable_default_print_handler", BoolValue(TRUE)),
      Assignment("orchestrator_max_agent_turns", IntValue(MaxAgentTurns)),
      Assignment("orchestrator_max_llm_calls", IntValue(MaxLlmCalls)),
      Assignment("task_max_llm_calls", NoneValue),
      Assignment("llm_model", StrValue(<<"openai", "gpt-4o-mini">>)),
      Assignment("llm_temperature", FloatValue("0.7")),
      Assignment("max_input_tokens", IntValue(MaxInputTokens)),
      Assignment("debug_messages", BoolValue(FALSE)),
      Assignment("tools_raise_on_error", BoolValue(FALSE)),
      Assignment("tools_verbose", BoolValue(TRUE)),
      Assignment("enable_experimental_tui", BoolValue(FALSE)),
      Assignment("run_tui_headless", BoolValue(FALSE)),
      Assignment("prefect_log_level", StrValue(<<"WARNING">>))>>

\* What a field holds before the cell assigns it.
Unassigned == StrValue(<<"(default)">>)

\* The fields of cf.settings in the order iteration yields them, with the
\* values of the fields the cell does not assign (recorded output).
DefaultSettings ==
    <<Assignment("home_path", Unassigned),
      Assignment("log_level", Unassigned),
      Assignment("log_prints", Unassigned),
      Assignment("log_all_messages", Unassigned),
      Assignment("pretty_print_agent_events", NoneValue),
      Assignment("enable_default_print_handler", Unassigned),
      Assignment("orchestrator_max_agent_turns", Unassigned),
      Assignment("orchestrator_max_llm_calls", Unassigned),
      Assignment("task_max_llm_calls", Unassigned),
      Assignment("llm_model", Unassigned),
      Assignment("llm_temperature", Unassigned),
      Assignment("max_input_tokens", Unassigned),
      Assignment("memory_provider", StrValue(<<"chroma-db">>)),
      Assignment("chroma_cloud_tenant", NoneValue),
      Assignment("chroma_cloud_database", NoneValue),
      Assignment("chroma_cloud_api_key", NoneValue),
      Assignment("debug_messages", Unassigned),
      Assignment("tools_raise_on_error", Unassigned),
      Assignment("tools_verbose", Unassigned),
      Assignment("enable_experimental_tui", Unassigned),
      Assignment("run_tui_headless", Unassigned),
      Assignment("prefect_log_level", Unassigned)>>

\* Home directories of the user running the notebook.
Homes == {<<"", "Users", "aw">>, <<"", "root">>}

\* Path.expanduser(): a leading "~" becomes the home directory.
expanduser(parts, home_dir) ==
    IF Head(parts) = "~" THEN home_dir \o Tail(parts) ELSE parts

\* A bug the settings object could have: home_path stored as it was given.
validate_assignment_verbatim(key, value, home_dir) == value

\* What the settings object stores when a field is assigned: home_path
\* becomes a Path with the user's home expanded (recorded output), every
\* other assigned value is stored as it is.
validate_assignment(key, value, home_dir) ==
    IF key = "home_path"
    THEN PathValue(expanduser(value.parts, home_dir))
    ELSE value

\* setattr(cf.settings, key, value)
SetAttr(s, key, value) ==
    [i \in 1..Len(s) |-> IF s[i].key = key THEN Assignment(key, value) ELSE s[i]]

\* getattr(cf.settings, key)
GetAttr(s, key) == s[CHOOSE i \in 1..Len(s) : s[i].key = key].value

SettingsHeaderLine == Line("Current ControlFlow Settings:", <<>>)
SettingLine(key, value) == Line("{}: {}", <<key, python_str(value)>>)

\* One assignment statement of the cell: cf.settings.<key> = <value>
SettingsAssign ==
    /\ pc = "assigning"
    /\ step < Len(Assignments)
    /\ LET a == Assignments[step + 1]
       IN  settings' = SetAttr(settings, a.key,
                               validate_assignment(a.key, a.value, home))
    /\ step' = step + 1
    /\ UNCHANGED <<pc, task, turns, output, calls, even_result, odd_result,
                   last_validation, tool_returns, result, home, turn_count,
                   call_count>>

\* print("Current ControlFlow Settings:")
SettingsPrintHeader ==
    /\ pc = "assigning"
    /\ step = Len(Assignments)
    /\ output' = <<SettingsHeaderLine>>
    /\ pc' = "printing"
    /\ step' = 0
    /\ UNCHANGED <<task, turns, calls, even_result, odd_result, last_validation,
                   tool_returns, result, settings, home, turn_count, call_count>>

\* One iteration of: for key, value in cf.settings: print(f"{key}: {value}")
SettingsPrintItem ==
    /\ pc = "printing"
    /\ step < Len(settings)
    /\ output' = Append(output, SettingLine(settings[step + 1].key,
                                            settings[step + 1].value))
    /\ step' = step + 1
    /\ UNCHANGED <<pc, task, turns, calls, even_result, odd_result,
                   last_validation, tool_returns, result, settings, home,
                   turn_count, call_count>>

\* The loop and the cell end.
SettingsCellEnds ==
    /\ pc = "printing"
    /\ step = Len(settings)
    /\ pc' = "settings_done"
    /\ UNCHANGED <<task, turns, output, calls, even_result, odd_result,
                   last_validation, tool_returns, result, settings, home, step,
                   turn_count, call_count>>

----------------------------------------------------------------------------
(* An orchestrator run under the settings of the cell                      *)

\* LLM calls of an agent turn: one, or as many as a busy turn makes
BusyTurnCalls == 12
TurnCalls == {1, BusyTurnCalls}

\* A maximum that is None limits nothing; a number is reached when the
\* count is no longer below it.
LimitReached(limit, count) ==
    IF limit.type = "NoneType" THEN FALSE ELSE count >= limit.int

\* The orchestrator's own limits (orchestrator_max_agent_turns,
\* orchestrator_max_llm_calls) end the run.
RunMustStop ==
    \/ LimitReached(GetAttr(settings, "orchestrator_max_agent_turns"), turn_count)
    \/ LimitReached(GetAttr(settings, "orchestrator_max_llm_calls"), call_count)

\* cf.run(...) after the cell: a task is created and the orchestrator starts.
OrchestratorStart ==
    /\ pc = "settings_done"
    /\ pc' = "orchestrating"
    /\ task' = PendingTask("", 0)
    /\ turn_count' = 0
    /\ call_count' = 0
    /\ UNCHANGED <<turns, output, calls, even_result, odd_result, last_validation,
                   tool_returns, result, settings, home, step>>

\* One agent turn: the agent makes LLM calls and may complete the task; a
\* task whose own maximum of LLM calls (task_max_llm_calls) is reached is
\* marked failed.
AgentTurn ==
    /\ pc = "orchestrating"
    /\ task.status = "PENDING"
    /\ ~RunMustStop
    /\ \E k \in TurnCalls, completes \in BOOLEAN :
         /\ turn_count' = turn_count + 1
         /\ call_count' = call_count + k
         /\ task' = IF LimitReached(GetAttr(settings, "task_max_llm_calls"),
                                    call_count + k)
                    THEN mark_failed(task)
                    ELSE IF completes THEN [task EXCEPT !.status = "SUCCESSFUL"]
                    ELSE task
    /\ UNCHANGED <<pc, turns, output, calls, even_result, odd_result,
                   last_validation, tool_returns, result, settings, home, step>>

\* The run ends: the task is complete, or a limit of the orchestrator is
\* reached while the task is still pending.
OrchestratorStops ==
    /\ pc = "orchestrating"
    /\ task.status /= "PENDING" \/ RunMustStop
    /\ pc' = "orch_stopped"
    /\ UNCHANGED <<task, turns, output, calls, even_result, odd_result,
                   last_validation, tool_returns, result, settingsVars>>

InitSettings ==
    /\ pc = "assigning"
    /\ InitFlowIdle
    /\ InitScrapeIdle
    /\ InitGcIdle
    /\ settings = DefaultSettings
    /\ home \in Homes
    /\ step = 0
    /\ turn_count = 0
    /\ call_count = 0
    /\ uncaught = None
    /\ tool_call = None

NextSettings ==
    \/ SettingsAssign /\ UNCHANGED <<scrapeVars, uncaught, tool_call>>
    \/ SettingsPrintHeader /\ UNCHANGED <<scrapeVars, uncaught, tool_call>>
    \/ SettingsPrintItem /\ UNCHANGED <<scrapeVars, uncaught, tool_call>>
    \/ SettingsCellEnds /\ UNCHANGED <<scrapeVars, uncaught, tool_call>>
    \/ OrchestratorStart /\ UNCHANGED <<scrapeVars, uncaught, tool_call>>
    \/ AgentTurn /\ UNCHANGED <<scrapeVars, uncaught, tool_call>>
    \/ OrchestratorStops /\ UNCHANGED <<scrapeVars, uncaught, tool_call>>

SpecSettings == InitSettings /\ [][NextSettings]_vars

----------------------------------------------------------------------------
(* Claims about the settings notebook                                      *)

\* C11: with the settings of the cell no limit stops a task after a bounded
\* number of LLM calls or agent turns: a run never ends with its task
\* still pending.
C11_NoLimitStopsTask ==
    pc = "orch_stopped" => task.status /= "PENDING"

\* The line the loop printed for a field.
PrintedFor(key) ==
    {k \in 1..Len(output) : output[k].fmt = "{}: {}" /\ output[k].arg[1] = key}

\* C12: the verification loop reports every setting assigned in the cell
\* with exactly the value assigned to it, home_path included.
C12_ReadBackIdentity ==
    pc = "settings_done" =>
        \A i \in 1..Len(Assignments) :
            \E k \in PrintedFor(Assignments[i].key) :
                output[k].arg[2] = python_str(Assignments[i].value)

\* C12 as the code has it: after the header the loop prints one line per
\* field of cf.settings; for every assigned field but home_path the line
\* shows the assigned value, and for home_path it shows the assigned path
\* with "~" replaced by the user's home directory.
C12_ReadBackButHome ==
    pc = "settings_done" =>
        /\ output[1] = SettingsHeaderLine
        /\ Len(output) = 1 + Len(DefaultSettings)
        /\ \A i \in 1..Len(Assignments) :
             LET a == Assignments[i]
             IN  /\ Cardinality(PrintedFor(a.key)) = 1
                 /\ \A k \in PrintedFor(a.key) :
                      output[k].arg[2] =
                          IF a.key = "home_path"
                          THEN Join(home \o <<".controlflow">>)
                          ELSE python_str(a.value)

\* The cell has ended under the home directory /Users/aw and its second
\* line is the recorded one.
C12_Witness ==
    /\ pc = "settings_done"
    /\ output[2] = Line("{}: {}", <<"home_path", "/Users/aw/.controlflow">>)
    /\ output[10] = Line("{}: {}", <<"task_max_llm_calls", "None">>)

----------------------------------------------------------------------------
(* A call of approve_code or reject_code                                   *)

\* longest list passed to a tool
MaxIssues == 2

ToolIssueLists == SeqUpTo(ReviewTexts, MaxIssues)
ToolReviews == {CodeReview(s, i, g, a) : s \in ReviewStatuses, i \in ToolIssueLists,
                                         g \in ToolIssueLists, a \in BOOLEAN}

ToolCall(tool, arg) == [tool |-> tool, arg |-> arg, value |-> None]

InitTools ==
    /\ pc = "idle"
    /\ InitFlowIdle
    /\ InitScrapeIdle
    /\ InitGcIdle
    /\ settings = <<>>
    /\ home = <<>>
    /\ step = 0
    /\ turn_count = 0
    /\ call_count = 0
    /\ uncaught = None
    /\ \/ \E review \in ToolReviews : tool_call = Some(ToolCall("approve_code", review))
       \/ \E issues \in ToolIssueLists : tool_call = Some(ToolCall("reject_code", issues))

\* approve_code(result)
CallApprove ==
    /\ tool_call /= None
    /\ tool_call[1].tool = "approve_code"
    /\ tool_call[1].value = None
    /\ tool_call' = Some([tool_call[1] EXCEPT !.value = Some(approve_code(tool_call[1].arg))])
    /\ UNCHANGED <<flowVars, scrapeVars, settingsVars, uncaught>>

\* reject_code(issues)
CallReject ==
    /\ tool_call /= None
    /\ tool_call[1].tool = "reject_code"
    /\ tool_call[1].value = None
    /\ tool_call' = Some([tool_call[1] EXCEPT !.value = Some(reject_code(tool_call[1].arg))])
    /\ UNCHANGED <<flowVars, scrapeVars, settingsVars, uncaught>>

NextTools == CallApprove \/ CallReject

SpecTools == InitTools /\ [][NextTools]_vars

----------------------------------------------------------------------------
(* Claims about the code-review example                                    *)

C15_ApproveIgnoresArgument ==
    (tool_call /= None /\ tool_call[1].tool = "approve_code"
                       /\ tool_call[1].value /= None) =>
        LET review == tool_call[1].value[1]
        IN  /\ review.status = "approved"
            /\ review.issues = <<>>
            /\ review.suggestions = <<"Code meets all quality standards">>
            /\ review.approval

\* approve_code was called on a rejected review with two issues and a
\* suggestion.
C15_Witness ==
    /\ tool_call /= None
    /\ tool_call[1].tool = "approve_code"
    /\ tool_call[1].value /= None
    /\ tool_call[1].arg.status = "rejected"
    /\ Len(tool_call[1].arg.issues) = 2
    /\ tool_call[1].arg.suggestions /= <<>>
    /\ ~tool_call[1].arg.approval

\* C16: reject_code(issues) returns status "rejected", approval false, no
\* suggestions and the given issues in the given order, for every list, the
\* empty one included.
C16_RejectKeepsIssues ==
    (tool_call /= None /\ tool_call[1].tool = "reject_code"
                       /\ tool_call[1].value /= None) =>
        LET review == tool_call[1].value[1]
            issues == tool_call[1].arg
        IN  /\ review.status = "rejected"
            /\ ~review.approval
            /\ review.suggestions = <<>>
            /\ Len(review.issues) = Len(issues)
            /\ \A i \in 1..Len(issues) : review.issues[i] = issues[i]

\* reject_code was called with the empty list: a rejection without issues.
C16_Witness ==
    /\ tool_call /= None
    /\ tool_call[1].tool = "reject_code"
    /\ tool_call[1].value /= None
    /\ tool_call[1].arg = <<>>
    /\ tool_call[1].value[1].issues = <<>>

----------------------------------------------------------------------------
(* Claims about the records of the HTML scraping cells                     *)

\* A text without the whitespace before its first and after its last
\* character that is not whitespace.
Trimmed(text) ==
    LET solid == {i \in 1..Len(text) : text[i] \notin {" ", "\n", "\t"}}
    IN  IF solid = {} THEN <<>>
        ELSE SubSeq(text, CHOOSE i \in solid : \A j \in solid : i <= j,
                          CHOOSE i \in solid : \A j \in solid : j <= i)

\* A text without its newline characters.
RECURSIVE WithoutNewlines(_)
WithoutNewlines(text) ==
    IF text = <<>> THEN <<>>
    ELSE IF text[Len(text)] = "\n" THEN WithoutNewlines(SubSeq(text, 1, Len(text) - 1))
    ELSE Append(WithoutNewlines(SubSeq(text, 1, Len(text) - 1)), text[Len(text)])

\* An HTML cell is past its posts_details = {} and works on a parsed page.
HtmlCellExtracting ==
    cell \in {"bs", "selenium"} /\ spc \in {"loop", "done"} /\ soup /= None

\* The articles of the page the loop has stored a record for, by key.
ContributorsOf(key) ==
    {i \in contributed : Trimmed(soup[1].articles[i].title_tag[1].text) = key}

\* The last article stored under the key.
LastContributor(key) ==
    CHOOSE i \in ContributorsOf(key) : \A j \in ContributorsOf(key) : j <= i

\* C17: in both HTML cells an article without a title anchor contributes
\* nothing; every key of posts_details is the stripped title text of an
\* article of the page, and every entry has exactly the fields link (that
\* anchor's href) and content.
C17_KeysAreTitles ==
    HtmlCellExtracting =>
        /\ \A i \in contributed : soup[1].articles[i].title_tag /= None
        /\ \A k \in 1..Len(posts_details) :
             /\ ContributorsOf(posts_details[k].key) /= {}
             /\ DOMAIN posts_details[k].value = {"link", "content"}
             /\ \E i \in ContributorsOf(posts_details[k].key) :
                  posts_details[k].value.link = soup[1].articles[i].title_tag[1].href

\* A cell has ended on a page whose first article has no title anchor and
\* whose second has the title " A\n": the one record has the key "A".
C17_Witness ==
    /\ HtmlCellExtracting
    /\ spc = "done"
    /\ Len(soup[1].articles) = 2
    /\ soup[1].articles[1].title_tag = None
    /\ soup[1].articles[2].title_tag /= None
    /\ soup[1].articles[2].title_tag[1].text = <<" ", "A", "\n">>
    /\ Len(posts_details) = 1
    /\ posts_details[1].key = <<"A">>

ContentOf(article) ==
    IF article.text_body = None
    THEN <<"N", "o", " ", "c", "o", "n", "t", "e", "n", "t">>
    ELSE IF cell = "bs"
         THEN WithoutNewlines(Trimmed(article.text_body[1]))
         ELSE Trimmed(article.text_body[1])

\* C19: the stored content is the literal "No content" exactly when the
\* article has no text-body div; otherwise it is the div's stripped text,
\* without its newlines in the BeautifulSoup-only cell and with them in the
\* Selenium cell.
C19_NoContentIffNoDiv ==
    HtmlCellExtracting =>
        \A k \in 1..Len(posts_details) :
            LET article == soup[1].articles[LastContributor(posts_details[k].key)]
            IN  /\ posts_details[k].value.content = ContentOf(article)
                /\ posts_details[k].value.content
                       = <<"N", "o", " ", "c", "o", "n", "t", "e", "n", "t">>
                   <=> article.text_body = None

\* C19 as the code has it: without a text-body div the content is
\* "No content", with one it is the div's stripped text (newlines removed
\* in the BeautifulSoup-only cell, kept in the Selenium cell); a div whose
\* text reads "No content" is stored as the same literal.
C19_ContentOfArticle ==
    HtmlCellExtracting =>
        \A k \in 1..Len(posts_details) :
            LET article == soup[1].articles[LastContributor(posts_details[k].key)]
            IN  /\ posts_details[k].value.content = ContentOf(article)
                /\ article.text_body = None =>
                     posts_details[k].value.content
                         = <<"N", "o", " ", "c", "o", "n", "t", "e", "n", "t">>

\* Both a post with the text body " x\ny\n" and a post without a text-body
\* div were stored by the BeautifulSoup-only cell.
C19_Witness ==
    /\ HtmlCellExtracting
    /\ cell = "bs"
    /\ spc = "done"
    /\ Len(posts_details) = 2
    /\ \E j, k \in 1..2 :
         /\ posts_details[j].value.content = <<"x", "y">>
         /\ soup[1].articles[LastContributor(posts_details[k].key)].text_body = None
         /\ posts_details[k].value.content
                = <<"N", "o", " ", "c", "o", "n", "t", "e", "n", "t">>

\* The calls the Selenium cell makes on the driver, and its waits, in order.
ExpectedDriverLog ==
    <<"Chrome", "get", "sleep">>
    \o [i \in 1..20 |-> IF i % 2 = 1 THEN "execute_script" ELSE "sleep"]
    \o <<"page_source", "quit">>

\* C20: the Selenium cell loads the URL, waits, scrolls exactly 10 times
\* with a wait after each scroll, reads page_source once and only then quits
\* the driver; nothing is read from the driver after quit, and the
\* extraction loop runs on the parsed soup after the browser is closed.
C20_DriverOrder ==
    cell = "selenium" =>
        /\ Len(driver_log) <= Len(ExpectedDriverLog)
        /\ driver_log = SubSeq(ExpectedDriverLog, 1, Len(driver_log))
        /\ spc \in {"loop", "done"} =>
             /\ driver_log = ExpectedDriverLog
             /\ soup /= None
        /\ (contributed /= {} \/ posts_details /= <<>>) =>
             driver_log[Len(driver_log)] = "quit"
        /\ spc \in {"scroll", "quit", "crashed"} =>
             driver_log[Len(driver_log)] /= "quit"

\* The Selenium cell has ended with a record stored.
C20_Witness ==
    /\ cell = "selenium"
    /\ spc = "done"
    /\ contributed /= {}
    /\ Len(driver_log) = 25

----------------------------------------------------------------------------
(* The HTML cells run to their end                                         *)

\* The kernel keeps executing a running cell: a cell that can take a step
\* takes it.
SpecScrapeFair == InitScrape /\ [][NextScrape]_vars /\ WF_vars(NextScrape)

\* C21: once the Selenium driver has been created the browser is closed on
\* every execution of the cell: driver.quit is eventually called, whether
\* or not the page has a <title> and whether or not an article was found.
C21_DriverEventuallyQuit ==
    (cell = "selenium") ~> (\E i \in 1..Len(driver_log) : driver_log[i] = "quit")

----------------------------------------------------------------------------
(* Claims about the lines and the termination of get_comments_with_replies *)

\* The number of spaces a line begins with.
Indentation(line) ==
    Cardinality({i \in 1..Len(line) : \A j \in 1..i : line[j] = " "})

\* The comments the call reaches, as paths, and the place of one's line.
ReachablePaths == {p \in Paths : IsCommentPath(gc_comment[1], p)}
LineIndex(p) == 1 + Cardinality({q \in ReachablePaths : PreOrderBefore(q, p)})

\* C22: every returned line encodes the nesting depth of its comment: the
\* line of the starting comment, called with depth k, begins with 2*k spaces
\* (none for k = 0), the line of a reply with two spaces more than the line
\* of its parent, and after the spaces every line is "- " and the body.
C22_IndentEncodesDepth ==
    gc_result /= None =>
        /\ Indentation(gc_result[1][1]) = 2 * gc_depth
        /\ \A p \in ReachablePaths :
             LET line == gc_result[1][LineIndex(p)]
                 n == Indentation(line)
             IN  /\ SubSeq(line, n + 1, Len(line))
                        = <<"-", " ">> \o NodeAt(gc_comment[1], p).body
                 /\ p /= <<>> =>
                      n = 2 + Indentation(
                              gc_result[1][LineIndex(SubSeq(p, 1, Len(p) - 1))])

\* A call with depth 1 on a comment with a reply that has a reply: the
\* third line has six spaces.
C22_Witness ==
    /\ gc_result /= None
    /\ gc_depth = 1
    /\ Len(gc_result[1]) = 3
    /\ Indentation(gc_result[1][1]) = 2
    /\ Indentation(gc_result[1][2]) = 4
    /\ Indentation(gc_result[1][3]) = 6

\* The interpreter runs a call to its end.
SpecCommentsFair == InitComments /\ [][NextComments]_vars /\ WF_vars(NextComments)

\* The comments of a tree, placeholders not counted.
RECURSIVE CountComments(_)
CountComments(node) ==
    IF node.kind = "MoreComments" THEN 0
    ELSE LET below[i \in 0..Len(node.replies)] ==
                 IF i = 0 THEN 0 ELSE below[i - 1] + CountComments(node.replies[i])
         IN  1 + below[Len(node.replies)]

\* The second tree is the first with nothing changed but this: a comment
\* that had no attribute replies has the empty list.
RECURSIVE OnlyRepliesSet(_, _)
OnlyRepliesSet(before, after) ==
    IF before.kind = "MoreComments" THEN after = before
    ELSE /\ after.kind = "Comment"
         /\ after.body = before.body
         /\ after.has_replies
         /\ Len(after.replies) = Len(before.replies)
         /\ ~before.has_replies => after.replies = <<>>
         /\ \A i \in 1..Len(before.replies) :
              OnlyRepliesSet(before.replies[i], after.replies[i])

\* C23: get_comments_with_replies terminates on every finite comment tree
\* and visits each comment that is not a placeholder exactly once (one line
\* for each); a comment without the attribute replies is treated as a leaf
\* and gets the empty list, and nothing else of the tree is modified.
C23_TerminatesVisitingOnce ==
    /\ <>(gc_result /= None)
    /\ [](gc_result /= None => Len(gc_result[1]) = CountComments(gc_comment[1]))
    /\ [][(gc_result = None /\ gc_result' /= None) =>
            OnlyRepliesSet(gc_comment[1], gc_comment'[1])]_vars

\* The call has returned on a comment whose only reply had no attribute
\* replies: two lines, and the reply now has the empty list.
C23_Witness ==
    /\ gc_result /= None
    /\ Len(gc_result[1]) = 2
    /\ Len(gc_comment[1].replies) = 1
    /\ gc_comment[1].replies[1].kind = "Comment"
    /\ gc_comment[1].replies[1].has_replies
    /\ gc_comment[1].replies[1].replies = <<>>

----------------------------------------------------------------------------
(* Claims about the records of the PRAW cell                               *)

\* The lines of a post's top-level comments, one comment after the other,
\* each with get_comments_with_replies at depth 0; placeholders at the top
\* level are gone after replace_more(limit=0).
ExpectedComments(post) ==
    LET upto[i \in 0..Len(post.comments)] ==
            IF i = 0 THEN <<>>
            ELSE IF post.comments[i].kind = "MoreComments" THEN upto[i - 1]
            ELSE upto[i - 1] \o get_comments_with_replies(post.comments[i], 0)
    IN  upto[Len(post.comments)]

\* C24: after the post loop posts_data has exactly one entry per distinct
\* id of the posts iterated, each with the fields title, content, comments,
\* link, flair and media, its comments being the lines of that post's
\* top-level comments in order and of no other post.
C24_OneEntryPerPost ==
    (cell = "praw" /\ spc = "done") =>
        /\ {posts_data[k].key : k \in 1..Len(posts_data)}
               = {yielded[i].id : i \in 1..Len(yielded)}
        /\ \A j, k \in 1..Len(posts_data) :
             posts_data[j].key = posts_data[k].key => j = k
        /\ \A k \in 1..Len(posts_data) :
             LET post == LastYielded(posts_data[k].key)
                 entry == posts_data[k].value
             IN  /\ DOMAIN entry = {"title", "content", "comments", "link",
                                    "flair", "media"}
                 /\ entry.title = post.title
                 /\ entry.content = post.selftext
                 /\ entry.link = post.shortlink
                 /\ entry.flair = post.flair
                 /\ entry.media = post.media
                 /\ entry.comments = ExpectedComments(post)

\* The loop has ended after two posts with different ids and different
\* comments, the second with a placeholder at the top level.
C24_Witness ==
    /\ cell = "praw"
    /\ spc = "done"
    /\ Len(yielded) = 2
    /\ Len(posts_data) = 2
    /\ Len(posts_data[1].value.comments) = 2
    /\ Len(posts_data[2].value.comments) = 1
    /\ \E i \in 1..Len(yielded[2].comments) : yielded[2].comments[i].kind = "MoreComments"

----------------------------------------------------------------------------
(* The cell that writes posts_data to a file                               *)

\* A text is a list of pieces; a piece is the newline "\n" or characters
\* among which there is no newline.

\* ticks the clock may advance while the kernel is in use
OutputTicks == 2

\* datetime.now().strftime('%d-%m-%Y'): the date, without the time of day
strftime(t) == <<t \div TicksPerDay>>

\* f"./_output/new/localllama-new-{...}.txt"
OutputFileName(t) == <<"./_output/new/localllama-new-">> \o strftime(t) \o <<".txt">>

\* for comment in post_info['comments']: file.writelines(comment + "\n")
RECURSIVE WriteComments(_)
WriteComments(comments) ==
    IF comments = <<>> THEN <<>>
    ELSE Head(comments) \o <<"\n">> \o WriteComments(Tail(comments))

\* The body of: for post_id, post_info in posts_data.items()
WriteBlock(post_id, post_info) ==
    <<"Post ID: ", post_id, "\n">>
    \o <<"Title: ">> \o post_info.title \o <<"\n">>
    \o <<"Link: ">> \o post_info.link \o <<"\n">>
    \o <<"Content: ">> \o post_info.content \o <<"\n">>
    \o (IF Len(post_info.comments) > 0
        THEN <<"Comments:", "\n">> \o WriteComments(post_info.comments)
        ELSE <<>>)
    \o <<"\n", "---", "\n">>

\* The file of the name, if the directory has it.
FileText(name) ==
    IF name \in DictKeys(files) THEN Some(files[DictGet(files, name)].value) ELSE None

\* A bug the cell could have: the file opened in append mode.
OutputOpenAppend ==
    /\ cell = "idle"
    /\ \E t \in clock..OutputTicks :
         /\ clock' = t
         /\ file_before' = FileText(OutputFileName(t))
         /\ files' = IF OutputFileName(t) \in DictKeys(files) THEN files
                     ELSE DictSet(files, OutputFileName(t), <<>>)
    /\ cell' = "output"
    /\ spc' = "loop"
    /\ cursor' = 0
    /\ stdout' = <<>>
    /\ UNCHANGED <<dict_before, htmlVars, prawVars, gcVars>>

\* with open(f"./_output/new/localllama-new-{...}.txt", "w") as file:
\* the file is created, or emptied if it exists.
OutputOpen ==
    /\ cell = "idle"
    /\ \E t \in clock..OutputTicks :
         /\ clock' = t
         /\ file_before' = FileText(OutputFileName(t))
         /\ files' = DictSet(files, OutputFileName(t), <<>>)
    /\ cell' = "output"
    /\ spc' = "loop"
    /\ cursor' = 0
    /\ stdout' = <<>>
    /\ UNCHANGED <<dict_before, htmlVars, prawVars, gcVars>>

\* open raises (the directory ./_output/new/ does not exist): no file is
\* made and the cell ends with the exception.
OutputOpenFails ==
    /\ cell = "idle"
    /\ files = <<>>
    /\ \E t \in clock..OutputTicks : clock' = t
    /\ cell' = "output"
    /\ spc' = "crashed"
    /\ cursor' = 0
    /\ stdout' = <<>>
    /\ UNCHANGED <<dict_before, htmlVars, prawVars, gcVars, files, file_before>>

\* One iteration of: for post_id, post_info in posts_data.items()
OutputLoopBody ==
    /\ cell = "output"
    /\ spc = "loop"
    /\ cursor < Len(posts_data)
    /\ LET item == posts_data[cursor + 1]
           name == OutputFileName(clock)
       IN  files' = DictSet(files, name,
                            files[DictGet(files, name)].value
                                \o WriteBlock(item.key, item.value))
    /\ cursor' = cursor + 1
    /\ UNCHANGED <<cell, spc, stdout, dict_before, htmlVars, prawVars, gcVars,
                   clock, file_before>>

\* The dictionary is exhausted: the file is closed and the cell ends.
OutputClose ==
    /\ cell = "output"
    /\ spc = "loop"
    /\ cursor = Len(posts_data)
    /\ spc' = "done"
    /\ UNCHANGED <<cell, cursor, stdout, dict_before, htmlVars, prawVars, gcVars,
                   fileVars>>

\* Submissions whose text fields differ: with a flair and a media, with
\* nested comments, with a selftext of two lines the second of which is a
\* markdown rule.
OutputPosts ==
    {[Post("p1", <<>>) EXCEPT !.flair = Some("flair"), !.media = Some("media")],
     Post("p2", <<Comment(<<"a">>, TRUE, <<Comment(<<"b">>, TRUE, <<>>)>>)>>),
     [Post("p1", <<Comment(<<"b">>, TRUE, <<>>)>>)
          EXCEPT !.selftext = <<"x", "\n", "-", "-", "-">>]}

\* The kernel after the first statements of the PRAW cell, which define
\* posts_data; the output directory exists or not and holds no file.
InitOutput ==
    /\ pc = "idle"
    /\ InitFlowIdle
    /\ InitGcIdle
    /\ InitSettingsIdle
    /\ cell = "praw"
    /\ spc = "loop"
    /\ response = None
    /\ soup = None
    /\ now = None
    /\ posts_details = <<>>
    /\ cursor = 0
    /\ contributed = {}
    /\ stdout = <<>>
    /\ requests = 0
    /\ driver_log = <<>>
    /\ posts_data = <<>>
    /\ yielded = <<>>
    /\ dict_before = <<>>
    /\ files = <<>>
    /\ clock = 0
    /\ file_before = None

NextOutput ==
    \/ PrawStart /\ UNCHANGED <<flowVars, settingsVars, uncaught, tool_call>>
    \/ PrawLoopBody(OutputPosts, MaxPosts) /\ UNCHANGED <<flowVars, settingsVars, uncaught, tool_call>>
    \/ PrawEnd /\ UNCHANGED <<flowVars, settingsVars, uncaught, tool_call>>
    \/ OutputOpen /\ UNCHANGED <<flowVars, settingsVars, uncaught, tool_call>>
    \/ OutputOpenFails /\ UNCHANGED <<flowVars, settingsVars, uncaught, tool_call>>
    \/ OutputLoopBody /\ UNCHANGED <<flowVars, settingsVars, uncaught, tool_call>>
    \/ OutputClose /\ UNCHANGED <<flowVars, settingsVars, uncaught, tool_call>>
    \/ CellEnds /\ UNCHANGED <<flowVars, settingsVars, uncaught, tool_call>>

SpecOutput == InitOutput /\ [][NextOutput]_vars

----------------------------------------------------------------------------
(* Claims about the output file                                            *)

\* The characters of the pieces, as one string.
RECURSIVE Concat(_)
Concat(pieces) ==
    IF pieces = <<>> THEN "" ELSE Head(pieces) \o Concat(Tail(pieces))

\* The lines a reader of the text sees: the runs of characters between its
\* newlines, the run after the last newline included.
RECURSIVE LinesOf(_)
LinesOf(text) ==
    IF \A i \in 1..Len(text) : text[i] /= "\n"
    THEN <<Concat(text)>>
    ELSE LET k == CHOOSE i \in 1..Len(text) :
                      /\ text[i] = "\n"
                      /\ \A j \in 1..(i - 1) : text[j] /= "\n"
         IN  <<Concat(SubSeq(text, 1, k - 1))>>
             \o LinesOf(SubSeq(text, k + 1, Len(text)))

\* The lines of the comments, one comment after the other.
RECURSIVE CommentFileLines(_)
CommentFileLines(comments) ==
    IF comments = <<>> THEN <<>>
    ELSE LinesOf(Head(comments)) \o CommentFileLines(Tail(comments))

\* The lines of the values written for a post.
WrittenFieldLines(post_id, post_info) ==
    <<LinesOf(<<"Post ID: ", post_id>>),
      LinesOf(<<"Title: ">> \o post_info.title),
      LinesOf(<<"Link: ">> \o post_info.link),
      LinesOf(<<"Content: ">> \o post_info.content),
      IF post_info.comments = <<>> THEN <<>>
      ELSE <<"Comments:">> \o CommentFileLines(post_info.comments)>>

\* The block of a post: Post ID, Title, Link, Content, the header and the
\* comment lines if there is a comment, an empty line and the separator.
BlockLines(post_id, post_info) ==
    LET written == WrittenFieldLines(post_id, post_info)
    IN  written[1] \o written[2] \o written[3] \o written[4] \o written[5]
        \o <<"", "---">>

\* The blocks of the first n entries of the dictionary, in its order.
RECURSIVE BlocksUpTo(_, _)
BlocksUpTo(d, n) ==
    IF n = 0 THEN <<>>
    ELSE BlocksUpTo(d, n - 1) \o BlockLines(d[n].key, d[n].value)

\* How many of the lines are the line.
RECURSIVE CountLine(_, _)
CountLine(lines, line) ==
    IF lines = <<>> THEN 0
    ELSE (IF Head(lines) = line THEN 1 ELSE 0) + CountLine(Tail(lines), line)

\* The lines "---" among the values written for the first n entries.
RECURSIVE RulesInValues(_, _)
RulesInValues(d, n) ==
    IF n = 0 THEN 0
    ELSE LET written == WrittenFieldLines(d[n].key, d[n].value)
         IN  RulesInValues(d, n - 1)
             + CountLine(written[1] \o written[2] \o written[3] \o written[4]
                         \o written[5], "---")

\* The output cell has ended normally.
OutputDone == cell = "output" /\ spc = "done"

\* The text of the file the running cell has opened.
OutputText == files[DictGet(files, OutputFileName(clock))].value

\* The file of the run's date holds the blocks of posts_data in dictionary
\* order and nothing else, whatever it held before the run; no flair and no
\* media is in it; the directory has one file for a date.
FileHoldsBlocks ==
    /\ OutputFileName(clock) \in DictKeys(files)
    /\ LinesOf(OutputText) = BlocksUpTo(posts_data, Len(posts_data)) \o <<"">>
    /\ \A k \in 1..Len(posts_data), i \in 1..Len(OutputText) :
         /\ posts_data[k].value.flair /= None
                => OutputText[i] /= posts_data[k].value.flair[1]
         /\ posts_data[k].value.media /= None
                => OutputText[i] /= posts_data[k].value.media[1]
    /\ Len(files) <= (clock \div TicksPerDay) + 1

\* C25 as stated: the output file holds one block per entry of posts_data,
\* in dictionary order (Post ID, Title, Link, Content, then "Comments:" and
\* the comment lines if and only if the post has a comment, then the
\* separator "---"); the number of separators equals the number of posts;
\* flair and media are not written; a second run on the same date replaces
\* the earlier content.
C25_SeparatorPerPost ==
    OutputDone =>
        /\ FileHoldsBlocks
        /\ CountLine(LinesOf(OutputText), "---") = Len(posts_data)

\* C25, amended: as above, but the lines "---" of the file are one for each
\* post and one for each line "---" of the titles, links, contents and
\* comments written.
C25_SeparatorsAndRules ==
    OutputDone =>
        /\ FileHoldsBlocks
        /\ CountLine(LinesOf(OutputText), "---")
               = Len(posts_data) + RulesInValues(posts_data, Len(posts_data))

\* A second run on a date has ended: the file held other blocks when it was
\* opened; posts_data has a post without comments, which has a flair, and
\* then a post with comments.
C25_Witness ==
    /\ OutputDone
    /\ file_before /= None
    /\ file_before[1] /= <<>>
    /\ file_before[1] /= OutputText
    /\ Len(posts_data) = 2
    /\ posts_data[1].value.comments = <<>>
    /\ posts_data[1].value.flair /= None
    /\ Len(posts_data[2].value.comments) = 2

====
